---- MODULE Spec2Model ----
(***************************************************************************)
(* paramiko AuthHandler (src/paramiko/auth_handler.py): the SSH-2 user     *)
(* authentication state machine, client and server halves.                 *)
(*                                                                         *)
(* One handler is attached to one transport.  The transport's reader       *)
(* thread dispatches inbound messages through _handler_table; on a client  *)
(* caller threads arm attempts through auth_none / auth_password /         *)
(* auth_publickey / auth_interactive and then poll in wait_for_response.   *)
(***************************************************************************)
EXTENDS Naturals, Sequences, FiniteSets

\* ----------------------------------------------------------------- bounds
\* Number of client attempts (each one auth_* call with an Event of its own),
\* made by the caller threads.
MaxAttempts == 2
\* Cap of the ghost counter of transport._auth_trigger() calls.
MaxTriggers == 2
\* Cap of the tally of USERAUTH_REQUEST messages a client has sent.
MaxRequests == 3

\* ------------------------------------------------------ program constants
\* auth_handler.py:245  if self.auth_fail_count >= 10
FailCap == 10

None == "None"
NoEvent == 0
\* The usernames a server is sent.
Users == {"alice", "bob"}
\* The username a client's attempt a passes to auth_*.
UserOf(a) == <<"u1", "u2", "u3", "u4">>[a]
ClientMethods == {"none", "password", "publickey", "keyboard-interactive"}
\* b'' is the initial auth_method (auth_handler.py:47); "bogus" stands for a
\* method name the server does not know.
ServerMethods == ClientMethods \cup {"bogus"}
Services == {"ssh-userauth", "ssh-connection", "other"}
\* Keys, passwords, interactive handlers and submethods are numbered; 0 is
\* None (a field never written) or, for a key blob, a mangled blob.
Keys == {1, 2}
KeyTypes == {"ssh-rsa", "bogus-type"}
SessionIds == {"S1", "S2"}
\* transport.session_id of this connection
session_id == "S1"
AuthLists == {<<"publickey">>, <<"password", "publickey">>,
              <<"none", "keyboard-interactive">>}
AuthResults == {"AUTH_SUCCESSFUL", "AUTH_PARTIALLY_SUCCESSFUL", "AUTH_FAILED"}
InteractiveQuery == "InteractiveQuery"
Attempts == 1..MaxAttempts
\* The caller threads of a client.
Threads == {1, 2}

NoExc == [type |-> None, allowed |-> <<>>]
Exc(type) == [type |-> type, allowed |-> <<>>]
PartialAuthentication(authlist) == [type |-> "PartialAuthentication", allowed |-> authlist]
BadAuthenticationType(authlist) == [type |-> "BadAuthenticationType", allowed |-> authlist]
AuthenticationException == Exc("AuthenticationException")

InList(x, s) == \E i \in 1..Len(s) : s[i] = x

\* ---------------------------------------------------------------- state
VARIABLES
    handler,     \* the AuthHandler's fields
    transport,   \* the transport's fields the handler uses
    events,      \* the threading.Event of every attempt
    caller,      \* every caller thread: position, arguments, outcome
    reader,      \* the reader thread: position inside the current handler
    obs          \* history: a server's last inbound message with what its
                 \* handler sent and called, and the number of non-partial
                 \* USERAUTH_FAILUREs it has sent; the number of a client's
                 \* attempts and, when tallied, of the USERAUTH_REQUESTs
                 \* it has sent

vars == <<handler, transport, events, caller, reader, obs>>

\* A world is the part of the state a handler method reads and writes:
\* h (handler), t (transport), ev (events), out (messages passed to
\* transport._send_message by the running handler), calls (server policy
\* callbacks it made), exc (the exception it raised, NoExc if none).
World == [h |-> handler, t |-> transport, ev |-> events,
          out |-> obs.out, calls |-> obs.calls, exc |-> NoExc]

\* --------------------------------------------------------- wire messages
Msg(type) == [type |-> type]
ServiceMsg(type, service) == [type |-> type, service |-> service]
DisconnectMsg(reason) == [type |-> "DISCONNECT", reason |-> reason]
FailureMsg(authlist, partial) ==
    [type |-> "USERAUTH_FAILURE", authlist |-> authlist, partial |-> partial]
PkOkMsg(keytype, keyblob) ==
    [type |-> "USERAUTH_PK_OK", keytype |-> keytype, keyblob |-> keyblob]
\* USERAUTH_REQUEST: flag is the boolean after the method (change request of
\* password, sig_attached of publickey); the fields a method does not carry
\* hold 0, "" or NoSig.
RequestMsg(username, service, method, flag, keytype, keyblob, password, sig, submethods) ==
    [type |-> "USERAUTH_REQUEST", username |-> username, service |-> service,
     method |-> method, flag |-> flag, keytype |-> keytype, keyblob |-> keyblob,
     password |-> password, sig |-> sig, submethods |-> submethods]

\* ------------------------------------------------------- key capability
\* AuthHandler._get_session_blob: the bytes a publickey signature covers.
_get_session_blob(key, service, username) ==
    [session_id |-> session_id, username |-> username, service |-> service,
     method |-> "publickey", key |-> key]

NoBlob == [session_id |-> "", username |-> "", service |-> "", method |-> "", key |-> 0]
NoSig == [signer |-> 0, blob |-> NoBlob]
sign_ssh_data(key, blob) == [signer |-> key, blob |-> blob]
verify_ssh_sig(key, blob, sig) == sig.signer = key /\ sig.blob = blob
\* transport._key_info[keytype](Message(keyblob)): the key, or None when the
\* blob is unsupported or mangled.
ParseKey(keytype, keyblob) ==
    IF keytype = "ssh-rsa" /\ keyblob \in Keys THEN keyblob ELSE 0

\* ---------------------------------------------------- transport binding
_send_message(w, m) == [w EXCEPT !.out = Append(@, m)]
_auth_trigger(w) == [w EXCEPT !.t.triggers = @ + 1]
Raise(w, type) == [w EXCEPT !.exc = Exc(type)]

\* threading.Event.set() on event e; ev[e] is what e.isSet() gives.
EventSet(w, e) == [w EXCEPT !.ev[e] = TRUE]

\* Fault seeded for C13: abort() leaving the event as it is.
AbortSilent(w) == w

\* AuthHandler.abort, auth_handler.py:112-114
abort(w) ==
    IF w.h.auth_event # NoEvent THEN EventSet(w, w.h.auth_event) ELSE w

\* transport.close(), and the end of the reader's run loop: the transport
\* becomes inactive and the handler's abort() wakes the caller.
close(w) == abort([w EXCEPT !.t.active = FALSE])

\* The reader's run loop on an exception raised by a handler: save it, stop.
TransportFail(w) ==
    IF w.exc = NoExc THEN w
    ELSE close([w EXCEPT !.t.saved_exception = w.exc])

_disconnect_service_not_available(w) ==
    close(_send_message(w, DisconnectMsg("SERVICE_NOT_AVAILABLE")))

_disconnect_no_more_auth(w) ==
    close(_send_message(w, DisconnectMsg("NO_MORE_AUTH_METHODS_AVAILABLE")))

\* -------------------------------------------------------- server policy
\* server_object.get_allowed_auths(username)
get_allowed_auths(username) == <<"password", "publickey">>
PolicyCall(w, name) == [w EXCEPT !.calls = Append(@, name)]

\* ------------------------------------------------------- server handlers
_parse_service_request(w, m) ==
    IF w.t.server_mode /\ m.service = "ssh-userauth"
    THEN _send_message(w, ServiceMsg("SERVICE_ACCEPT", m.service))
    ELSE _disconnect_service_not_available(w)

\* Fault seeded for C7: the failure cap tested with > in place of >=.
SendAuthResultTailLate(w, m, result) ==
    LET w1 == _send_message(w, m)
        w2 == IF w1.h.auth_fail_count > FailCap
              THEN _disconnect_no_more_auth(w1) ELSE w1
    IN IF result = "AUTH_SUCCESSFUL" THEN _auth_trigger(w2) ELSE w2

\* The tail of _send_auth_result (auth_handler.py:244-248), after the
\* message m has been built and the fields updated.
SendAuthResultTail(w, m, result) ==
    LET w1 == _send_message(w, m)
        w2 == IF w1.h.auth_fail_count >= FailCap
              THEN _disconnect_no_more_auth(w1) ELSE w1
    IN IF result = "AUTH_SUCCESSFUL" THEN _auth_trigger(w2) ELSE w2

\* Fault seeded for C3: _send_auth_result clearing `authenticated` when the
\* result is not Successful.
SendAuthResultClearing(w, username, method, result) ==
    IF username = None
    THEN Raise(w, "AssertionError")
    ELSE IF result = "AUTH_SUCCESSFUL"
    THEN SendAuthResultTail([w EXCEPT !.h.authenticated = TRUE],
                            Msg("USERAUTH_SUCCESS"), result)
    ELSE LET w1 == PolicyCall([w EXCEPT !.h.authenticated = FALSE], "get_allowed_auths")
             auths == get_allowed_auths(username)
         IN IF result = "AUTH_PARTIALLY_SUCCESSFUL"
            THEN SendAuthResultTail(w1, FailureMsg(auths, TRUE), result)
            ELSE SendAuthResultTail([w1 EXCEPT !.h.auth_fail_count = @ + 1],
                                    FailureMsg(auths, FALSE), result)

_send_auth_result(w, username, method, result) ==
    IF username = None
    THEN Raise(w, "AssertionError")
    ELSE IF result = "AUTH_SUCCESSFUL"
    THEN SendAuthResultTail([w EXCEPT !.h.authenticated = TRUE],
                            Msg("USERAUTH_SUCCESS"), result)
    ELSE LET w1 == PolicyCall(w, "get_allowed_auths")
             auths == get_allowed_auths(username)
         IN IF result = "AUTH_PARTIALLY_SUCCESSFUL"
            THEN SendAuthResultTail(w1, FailureMsg(auths, TRUE), result)
            ELSE SendAuthResultTail([w1 EXCEPT !.h.auth_fail_count = @ + 1],
                                    FailureMsg(auths, FALSE), result)

_interactive_query(w, q) ==
    _send_message(w, [type |-> "USERAUTH_INFO_REQUEST", query |-> q])

\* Fault seeded for C8: the publickey branch going on to the auth result when
\* no signature is attached.
PublickeyBranchNoProbe(w, m, p) ==
    LET key == ParseKey(m.keytype, m.keyblob)
    IN IF key = 0
       THEN [w |-> _disconnect_no_more_auth(w), result |-> None, done |-> TRUE]
       ELSE LET w1 == PolicyCall(w, "check_auth_publickey")
            IN IF p # "AUTH_FAILED" /\ m.flag
                  /\ ~verify_ssh_sig(key, _get_session_blob(key, m.service, m.username),
                                     m.sig)
               THEN [w |-> w1, result |-> "AUTH_FAILED", done |-> FALSE]
               ELSE [w |-> w1, result |-> p, done |-> FALSE]

\* Fault seeded for C9: the publickey branch taking the signature unverified.
PublickeyBranchNoVerify(w, m, p) ==
    LET key == ParseKey(m.keytype, m.keyblob)
    IN IF key = 0
       THEN [w |-> _disconnect_no_more_auth(w), result |-> None, done |-> TRUE]
       ELSE LET w1 == PolicyCall(w, "check_auth_publickey")
            IN IF p # "AUTH_FAILED" /\ ~m.flag
               THEN [w |-> _send_message(w1, PkOkMsg(m.keytype, m.keyblob)),
                     result |-> p, done |-> TRUE]
               ELSE [w |-> w1, result |-> p, done |-> FALSE]

\* The publickey branch of _parse_userauth_request (auth_handler.py:311-343).
\* Gives [w, result, done]: done when the handler returns without sending
\* the auth result.
PublickeyBranch(w, m, p) ==
    LET sig_attached == m.flag
        key == ParseKey(m.keytype, m.keyblob)
    IN IF key = 0
       THEN [w |-> _disconnect_no_more_auth(w), result |-> None, done |-> TRUE]
       ELSE LET w1 == PolicyCall(w, "check_auth_publickey")
                result == p
            IN IF result # "AUTH_FAILED"
               THEN IF ~sig_attached
                    THEN [w |-> _send_message(w1, PkOkMsg(m.keytype, m.keyblob)),
                          result |-> result, done |-> TRUE]
                    ELSE LET blob == _get_session_blob(key, m.service, m.username)
                         IN IF ~verify_ssh_sig(key, blob, m.sig)
                            THEN [w |-> w1, result |-> "AUTH_FAILED", done |-> FALSE]
                            ELSE [w |-> w1, result |-> result, done |-> FALSE]
               ELSE [w |-> w1, result |-> result, done |-> FALSE]

\* Fault seeded for C6: the username of a request never taken for a change.
UsernameNeverChanged(w, m) == FALSE

\* auth_handler.py:283: the request names another user than the bound one.
UsernameChanged(w, m) ==
    w.h.auth_username # None /\ w.h.auth_username # m.username

\* Fault seeded for C14: the request handler without the early return of
\* auth_handler.py:272-274.
ParseUserauthRequestNoIgnore(w, m, p) ==
    IF m.service # "ssh-connection"
    THEN _disconnect_service_not_available(w)
    ELSE IF UsernameChanged(w, m)
    THEN _disconnect_no_more_auth(w)
    ELSE _send_auth_result(PolicyCall([w EXCEPT !.h.auth_username = m.username],
                                      "check_auth_none"),
                           m.username, m.method, p)

\* p is what the server policy answers to the check_auth_* call the request
\* leads to (an AuthResult, or an InteractiveQuery from check_auth_interactive).
_parse_userauth_request(w, m, p) ==
    IF ~w.t.server_mode
    THEN _send_message(w, FailureMsg(<<"none">>, FALSE))
    ELSE IF w.h.authenticated
    THEN w
    ELSE IF m.service # "ssh-connection"
    THEN _disconnect_service_not_available(w)
    ELSE IF UsernameChanged(w, m)
    THEN _disconnect_no_more_auth(w)
    ELSE LET w1 == [w EXCEPT !.h.auth_username = m.username]
         IN CASE m.method = "none" ->
                   _send_auth_result(PolicyCall(w1, "check_auth_none"),
                                     m.username, m.method, p)
              [] m.method = "password" ->
                   IF m.flag
                   THEN _send_auth_result(w1, m.username, m.method, "AUTH_FAILED")
                   ELSE _send_auth_result(PolicyCall(w1, "check_auth_password"),
                                          m.username, m.method, p)
              [] m.method = "publickey" ->
                   LET b == PublickeyBranch(w1, m, p)
                   IN IF b.done THEN b.w
                      ELSE _send_auth_result(b.w, m.username, m.method, b.result)
              [] m.method = "keyboard-interactive" ->
                   LET w2 == PolicyCall(w1, "check_auth_interactive")
                   IN IF p = InteractiveQuery
                      THEN _interactive_query(w2, p)
                      ELSE _send_auth_result(w2, m.username, m.method, p)
              [] OTHER ->
                   _send_auth_result(PolicyCall(w1, "check_auth_none"),
                                     m.username, m.method, p)

\* isinstance(type(result), InteractiveQuery) at auth_handler.py:415:
\* type(result) is a class, never an instance of InteractiveQuery.
IsInstanceOfType(result) == FALSE

_parse_userauth_info_response(w, m, p) ==
    IF ~w.t.server_mode
    THEN Raise(w, "SSHException")
    ELSE LET w1 == PolicyCall(w, "check_auth_interactive_response")
         IN IF IsInstanceOfType(p)
            THEN _interactive_query(w1, p)
            ELSE _send_auth_result(w1, w1.h.auth_username, "keyboard-interactive", p)

\* ------------------------------------------------------- client handlers
\* The reader thread takes no lock, while the caller threads write the fields
\* it reads (auth_handler.py:68-107).  A handler that reads or writes such a
\* field is therefore a sequence of steps, one for every source line whose
\* reads or writes another thread can tell apart.  The reader's position r
\* is [pc, m]: pc names the line it goes on from, m is the message it is
\* building (or, in the failure handler, the message it is handling).  A step
\* gives [w, r]: the world it leaves and the reader's next position.
NoMsg == [type |-> None]
IdleReader == [pc |-> "idle", m |-> NoMsg]
At(w, pc, m) == [w |-> w, r |-> [pc |-> pc, m |-> m]]
Return(w) == [w |-> w, r |-> IdleReader]

\* The USERAUTH_REQUEST of auth_handler.py:193-194, nothing added yet.
EmptyRequest == RequestMsg(None, "", "", FALSE, "", 0, 0, NoSig, 0)

\* _parse_service_accept, auth_handler.py:190-195 and 222-223
_parse_service_accept_190(w, m) ==
    IF m.service # "ssh-userauth" THEN Return(w)
    ELSE At(w, "accept_196", [EmptyRequest EXCEPT !.username = w.h.username])

\* auth_handler.py:196-199.  self.username is read again for the isinstance
\* test: a username of None with self.username now a str fails in
\* username.encode, and one added as None fails in add_bytes.
_parse_service_accept_196(w, r) ==
    IF r.m.username = None
    THEN Return(Raise(w, IF w.h.username = None THEN "TypeError" ELSE "AttributeError"))
    ELSE At(w, "accept_200", [r.m EXCEPT !.service = "ssh-connection"])

\* auth_handler.py:200
_parse_service_accept_200(w, r) ==
    At(w, "accept_201", [r.m EXCEPT !.method = w.h.auth_method])

\* auth_handler.py:201-202
_parse_service_accept_201(w, r) ==
    IF w.h.auth_method = "password"
    THEN At(w, "accept_203", [r.m EXCEPT !.flag = FALSE])
    ELSE At(w, "accept_207", r.m)

\* auth_handler.py:203-206
_parse_service_accept_203(w, r) ==
    IF w.h.password = 0 THEN Return(Raise(w, "TypeError"))
    ELSE At(w, "accept_221", [r.m EXCEPT !.password = w.h.password])

\* auth_handler.py:207-208
_parse_service_accept_207(w, r) ==
    IF w.h.auth_method = "publickey"
    THEN At(w, "accept_209", [r.m EXCEPT !.flag = TRUE])
    ELSE At(w, "accept_214", r.m)

\* auth_handler.py:209  self.private_key.get_name()
_parse_service_accept_209(w, r) ==
    IF w.h.private_key = 0 THEN Return(Raise(w, "AttributeError"))
    ELSE At(w, "accept_210", [r.m EXCEPT !.keytype = "ssh-rsa"])

\* auth_handler.py:210  self.private_key.getvalue()
_parse_service_accept_210(w, r) ==
    IF w.h.private_key = 0 THEN Return(Raise(w, "AttributeError"))
    ELSE At(w, "accept_211", [r.m EXCEPT !.keyblob = w.h.private_key])

\* auth_handler.py:211, the first argument of the call: self.private_key
\* is read (a key of None fails later, inside _get_session_blob).
_parse_service_accept_211(w, r) ==
    At(w, "accept_211_username",
       [r.m EXCEPT !.sig = [signer |-> 0,
                            blob |-> [NoBlob EXCEPT !.key = w.h.private_key]]])

\* auth_handler.py:211, the last argument and the call: self.username is
\* read and the blob built; add_string of a username of None (148) fails
\* before key.get_name() (152) is reached.
_parse_service_accept_211_username(w, r) ==
    IF w.h.username = None THEN Return(Raise(w, "TypeError"))
    ELSE IF r.m.sig.blob.key = 0 THEN Return(Raise(w, "AttributeError"))
    ELSE At(w, "accept_212",
            [r.m EXCEPT !.sig = [signer |-> 0,
                                 blob |-> _get_session_blob(r.m.sig.blob.key,
                                                            "ssh-connection",
                                                            w.h.username)]])

\* auth_handler.py:212-213: self.private_key, read once more, signs the blob.
_parse_service_accept_212(w, r) ==
    IF w.h.private_key = 0 THEN Return(Raise(w, "AttributeError"))
    ELSE At(w, "accept_221",
            [r.m EXCEPT !.sig = sign_ssh_data(w.h.private_key, r.m.sig.blob)])

\* auth_handler.py:214-215
_parse_service_accept_214(w, r) ==
    IF w.h.auth_method = "keyboard-interactive"
    THEN At(w, "accept_216", r.m)
    ELSE At(w, "accept_217", r.m)

\* auth_handler.py:216
_parse_service_accept_216(w, r) ==
    IF w.h.submethods = 0 THEN Return(Raise(w, "TypeError"))
    ELSE At(w, "accept_221", [r.m EXCEPT !.submethods = w.h.submethods])

\* auth_handler.py:217-220
_parse_service_accept_217(w, r) ==
    IF w.h.auth_method = "none" THEN At(w, "accept_221", r.m)
    ELSE Return(Raise(w, "SSHException"))

\* auth_handler.py:221
_parse_service_accept_221(w, r) == Return(_send_message(w, r.m))

\* _parse_userauth_success, auth_handler.py:358-359
_parse_userauth_success_358(w) ==
    At([w EXCEPT !.h.authenticated = TRUE], "success_360", NoMsg)

\* auth_handler.py:360
_parse_userauth_success_360(w, r) == At(_auth_trigger(w), "success_361", NoMsg)

\* _parse_userauth_success, auth_handler.py:361-362
_parse_userauth_success_361(w, r) ==
    Return(IF w.h.auth_event # NoEvent THEN EventSet(w, w.h.auth_event) ELSE w)

\* _parse_userauth_failure, auth_handler.py:365-371 and 375-376: a partial
\* failure is saved at once (370; nothing shared is read before); otherwise
\* self.auth_method is read and looked up in the list (371).
_parse_userauth_failure_365(w, m) ==
    IF m.partial
    THEN At([w EXCEPT !.t.saved_exception = PartialAuthentication(m.authlist)],
            "failure_377", m)
    ELSE IF ~InList(w.h.auth_method, m.authlist)
    THEN At(w, "failure_374", m)
    ELSE At(w, "failure_377", m)

\* auth_handler.py:372-374
_parse_userauth_failure_374(w, r) ==
    At([w EXCEPT !.t.saved_exception = BadAuthenticationType(r.m.authlist)],
       "failure_377", r.m)

\* auth_handler.py:377
_parse_userauth_failure_377(w, r) ==
    At([w EXCEPT !.h.authenticated = FALSE], "failure_378", r.m)

\* auth_handler.py:378
_parse_userauth_failure_378(w, r) ==
    At([w EXCEPT !.h.username = None], "failure_379", r.m)

\* auth_handler.py:379-380
_parse_userauth_failure_379(w, r) ==
    Return(IF w.h.auth_event # NoEvent THEN EventSet(w, w.h.auth_event) ELSE w)

\* 'Auth banner: ' + banner concatenates str and bytes (auth_handler.py:385).
_parse_userauth_banner(w, m) == Raise(w, "TypeError")

\* _parse_userauth_info_request, auth_handler.py:389-397
_parse_userauth_info_request_389(w, m) ==
    IF w.h.auth_method # "keyboard-interactive" THEN Return(Raise(w, "SSHException"))
    ELSE At(w, "info_398", NoMsg)

\* auth_handler.py:398: self.interactive_handler is read and called; the
\* call lasts as long as the user takes to answer.
_parse_userauth_info_request_398(w, r) ==
    IF w.h.interactive_handler = 0 THEN Return(Raise(w, "TypeError"))
    ELSE At(w, "info_400", [type |-> "USERAUTH_INFO_RESPONSE",
                            handler |-> w.h.interactive_handler])

\* auth_handler.py:400-405: the callback has returned, the response is sent.
_parse_userauth_info_request_400(w, r) == Return(_send_message(w, r.m))

\* The step the reader takes from position r inside a handler.
InsideStep(w, r) ==
    CASE r.pc = "accept_196" -> _parse_service_accept_196(w, r)
      [] r.pc = "accept_200" -> _parse_service_accept_200(w, r)
      [] r.pc = "accept_201" -> _parse_service_accept_201(w, r)
      [] r.pc = "accept_203" -> _parse_service_accept_203(w, r)
      [] r.pc = "accept_207" -> _parse_service_accept_207(w, r)
      [] r.pc = "accept_209" -> _parse_service_accept_209(w, r)
      [] r.pc = "accept_210" -> _parse_service_accept_210(w, r)
      [] r.pc = "accept_211" -> _parse_service_accept_211(w, r)
      [] r.pc = "accept_211_username" -> _parse_service_accept_211_username(w, r)
      [] r.pc = "accept_212" -> _parse_service_accept_212(w, r)
      [] r.pc = "accept_214" -> _parse_service_accept_214(w, r)
      [] r.pc = "accept_216" -> _parse_service_accept_216(w, r)
      [] r.pc = "accept_217" -> _parse_service_accept_217(w, r)
      [] r.pc = "accept_221" -> _parse_service_accept_221(w, r)
      [] r.pc = "success_360" -> _parse_userauth_success_360(w, r)
      [] r.pc = "success_361" -> _parse_userauth_success_361(w, r)
      [] r.pc = "failure_374" -> _parse_userauth_failure_374(w, r)
      [] r.pc = "failure_377" -> _parse_userauth_failure_377(w, r)
      [] r.pc = "failure_378" -> _parse_userauth_failure_378(w, r)
      [] r.pc = "failure_379" -> _parse_userauth_failure_379(w, r)
      [] r.pc = "info_398" -> _parse_userauth_info_request_398(w, r)
      [] r.pc = "info_400" -> _parse_userauth_info_request_400(w, r)

AcceptPcs == {"accept_196", "accept_200", "accept_201", "accept_203", "accept_207",
              "accept_209", "accept_210", "accept_211", "accept_211_username",
              "accept_212", "accept_214", "accept_216", "accept_217", "accept_221"}
SuccessPcs == {"success_360", "success_361"}
FailurePcs == {"failure_374", "failure_377", "failure_378", "failure_379"}
InfoRequestPcs == {"info_398", "info_400"}

\* A handler run from the step s to its end with no other thread taking a
\* step in between: the world it leaves.  An exception ends the handler.
RECURSIVE RunToEnd(_)
RunToEnd(s) ==
    IF s.r.pc = "idle" \/ s.w.exc # NoExc THEN s.w
    ELSE RunToEnd(InsideStep(s.w, s.r))

\* The client handlers of _handler_table, run from end to end.
_parse_service_accept(w, m) == RunToEnd(_parse_service_accept_190(w, m))

_parse_userauth_success(w) == RunToEnd(_parse_userauth_success_358(w))

_parse_userauth_failure(w, m) == RunToEnd(_parse_userauth_failure_365(w, m))

_parse_userauth_info_request(w, m) == RunToEnd(_parse_userauth_info_request_389(w, m))

\* ------------------------------------------------------ client facade
_request_auth(w) == _send_message(w, ServiceMsg("SERVICE_REQUEST", "ssh-userauth"))

\* The per-method field an auth_* entry point writes after self.username
\* (auth_handler.py:81, 92, 106); c is the credential of the attempt.
StoreCredential(w, method, c) ==
    CASE method = "publickey" -> [w EXCEPT !.h.private_key = c]
      [] method = "password" -> [w EXCEPT !.h.password = c]
      [] method = "keyboard-interactive" -> [w EXCEPT !.h.interactive_handler = c]
      [] OTHER -> w

\* transport.get_exception(): the saved exception of the transport.
get_exception(w) == w.t.saved_exception

\* wait_for_response, auth_handler.py:159-163: what is raised once the
\* transport is found inactive; e is what get_exception() gave.
WaitDeadOutcome(e) ==
    LET e1 == IF e = NoExc \/ e.type = "EOFError" THEN AuthenticationException ELSE e
    IN [kind |-> "raise", allowed |-> e1.allowed, exc |-> e1.type]

\* Fault seeded for C10: wait_for_response raising a PartialAuthentication
\* like any other saved exception.
WaitFailedRaisingPartial(e) ==
    LET e1 == IF e = NoExc THEN AuthenticationException ELSE e
    IN [kind |-> "raise", allowed |-> e1.allowed, exc |-> e1.type]

\* wait_for_response, auth_handler.py:167-174: the outcome when the handler
\* is not authenticated; e is what get_exception() gave.
WaitFailedOutcome(e) ==
    LET e1 == IF e = NoExc THEN AuthenticationException ELSE e
    IN IF e1.type = "PartialAuthentication"
       THEN [kind |-> "return", allowed |-> e1.allowed, exc |-> None]
       ELSE [kind |-> "raise", allowed |-> e1.allowed, exc |-> e1.type]

\* wait_for_response, auth_handler.py:175: return []
WaitSuccessOutcome == [kind |-> "return", allowed |-> <<>>, exc |-> None]

\* The caller is still in the loop of wait_for_response.
Blocked == [kind |-> "blocked", allowed |-> <<>>, exc |-> None]

\* wait_for_response(e) in a world where no other thread takes a step.
wait_for_response(w, e) ==
    IF ~w.t.active THEN WaitDeadOutcome(get_exception(w))
    ELSE IF ~w.ev[e] THEN Blocked
    ELSE IF w.h.authenticated THEN WaitSuccessOutcome
    ELSE WaitFailedOutcome(get_exception(w))


\* ------------------------------------------------------------ initial state
NoResult == [kind |-> "none", allowed |-> <<>>, exc |-> None]
NoLast == [type |-> None, username |-> None, service |-> "", method |-> "",
           flag |-> FALSE, answer |-> None]
IdleCaller == [pc |-> "idle", event |-> NoEvent, meth |-> "", result |-> NoResult]

\* AuthHandler.__init__ (auth_handler.py:42-54) on a fresh, active transport.
\* tally says whether the history counts the USERAUTH_REQUEST messages a
\* client sends.
InitState(tally) ==
    /\ handler = [username |-> None, authenticated |-> FALSE, auth_event |-> NoEvent,
                  auth_method |-> "", password |-> 0, private_key |-> 0,
                  interactive_handler |-> 0, submethods |-> 0,
                  auth_username |-> None, auth_fail_count |-> 0]
    /\ transport \in [server_mode : BOOLEAN, active : {TRUE},
                      saved_exception : {NoExc}, lock : {0}, triggers : {0}]
    /\ events = [e \in Attempts |-> FALSE]
    /\ caller = [t \in Threads |-> IdleCaller]
    /\ reader = IdleReader
    /\ obs = [last |-> NoLast, out |-> <<>>, calls |-> <<>>, exc |-> NoExc,
              nArmed |-> 0, failures |-> 0, tally |-> tally, requests |-> 0]

Init == InitState(FALSE)

\* --------------------------------------------------------- caller threads
\* auth_none / auth_password / auth_publickey / auth_interactive, whatever
\* the state of the transport: acquire transport.lock (auth_handler.py:66
\* and the like).  Attempts are numbered in the order they get the lock;
\* attempt a passes event a, username UserOf(a) and credential a.  The
\* lines that follow are steps of their own: the reader runs between them.
ArmBegin(t, meth) ==
    LET a == obs.nArmed + 1
    IN /\ ~transport.server_mode
       /\ caller[t].pc \in {"idle", "done"}
       /\ \A t2 \in Threads : t2 < t => caller[t2].pc # "idle"
       /\ a <= MaxAttempts
       /\ transport.lock = 0
       /\ transport' = [transport EXCEPT !.lock = t]
       /\ caller' = [caller EXCEPT ![t] = [pc |-> "arm_event", event |-> a,
                                           meth |-> meth, result |-> NoResult]]
       /\ UNCHANGED <<handler, events, reader, obs>>

\* self.auth_event = event (auth_handler.py:68, 78, 89, 103)
ArmEvent(t) ==
    /\ caller[t].pc = "arm_event"
    /\ handler' = [handler EXCEPT !.auth_event = caller[t].event]
    /\ caller' = [caller EXCEPT ![t].pc = "arm_method"]
    /\ obs' = [obs EXCEPT !.nArmed = caller[t].event]
    /\ UNCHANGED <<transport, events, reader>>

\* self.auth_method = ... (auth_handler.py:69, 79, 90, 104)
ArmMethod(t) ==
    /\ caller[t].pc = "arm_method"
    /\ handler' = [handler EXCEPT !.auth_method = caller[t].meth]
    /\ caller' = [caller EXCEPT ![t].pc = "arm_username"]
    /\ UNCHANGED <<transport, events, reader, obs>>

\* self.username = username (auth_handler.py:70, 80, 91, 105)
ArmUsername(t) ==
    /\ caller[t].pc = "arm_username"
    /\ handler' = [handler EXCEPT !.username = UserOf(caller[t].event)]
    /\ caller' = [caller EXCEPT ![t].pc = IF caller[t].meth = "none"
                                          THEN "arm_send" ELSE "arm_credential"]
    /\ UNCHANGED <<transport, events, reader, obs>>

\* self.private_key = key, self.password = password or
\* self.interactive_handler = handler (auth_handler.py:81, 92, 106)
ArmCredential(t) ==
    /\ caller[t].pc = "arm_credential"
    /\ handler' = StoreCredential(World, caller[t].meth, caller[t].event).h
    /\ caller' = [caller EXCEPT ![t].pc = IF caller[t].meth = "keyboard-interactive"
                                          THEN "arm_submethods" ELSE "arm_send"]
    /\ UNCHANGED <<transport, events, reader, obs>>

\* self.submethods = submethods (auth_handler.py:107)
ArmSubmethods(t) ==
    /\ caller[t].pc = "arm_submethods"
    /\ handler' = [handler EXCEPT !.submethods = caller[t].event]
    /\ caller' = [caller EXCEPT ![t].pc = "arm_send"]
    /\ UNCHANGED <<transport, events, reader, obs>>

\* self._request_auth() (auth_handler.py:71, 82, 93, 108)
ArmSend(t) ==
    /\ caller[t].pc = "arm_send"
    /\ handler' = _request_auth(World).h
    /\ caller' = [caller EXCEPT ![t].pc = "arm_release", ![t].meth = ""]
    /\ UNCHANGED <<transport, events, reader, obs>>

\* self.transport.lock.release() (auth_handler.py:73, 84, 95, 110)
ArmRelease(t) ==
    /\ caller[t].pc = "arm_release"
    /\ transport' = [transport EXCEPT !.lock = 0]
    /\ caller' = [caller EXCEPT ![t].pc = "w_loop"]
    /\ UNCHANGED <<handler, events, reader, obs>>

\* wait_for_response(event), auth_handler.py:158-163: after a slice of
\* event.wait the transport is found inactive, or not.
WaitLoop(t) ==
    /\ caller[t].pc = "w_loop"
    /\ caller' = IF ~transport.active
                 THEN [caller EXCEPT ![t].pc = "done",
                          ![t].result = WaitDeadOutcome(get_exception(World))]
                 ELSE [caller EXCEPT ![t].pc = "w_isset"]
    /\ UNCHANGED <<handler, transport, events, reader, obs>>

\* auth_handler.py:164-165
WaitIsSet(t) ==
    /\ caller[t].pc = "w_isset"
    /\ caller' = [caller EXCEPT ![t].pc = IF events[caller[t].event]
                                          THEN "w_auth" ELSE "w_loop"]
    /\ UNCHANGED <<handler, transport, events, reader, obs>>

\* auth_handler.py:166 and 175
WaitAuth(t) ==
    /\ caller[t].pc = "w_auth"
    /\ caller' = IF handler.authenticated
                 THEN [caller EXCEPT ![t].pc = "done",
                                     ![t].result = WaitSuccessOutcome]
                 ELSE [caller EXCEPT ![t].pc = "w_exc"]
    /\ UNCHANGED <<handler, transport, events, reader, obs>>

\* auth_handler.py:167-174
WaitExc(t) ==
    /\ caller[t].pc = "w_exc"
    /\ caller' = [caller EXCEPT ![t].pc = "done",
                                ![t].result = WaitFailedOutcome(get_exception(World))]
    /\ UNCHANGED <<handler, transport, events, reader, obs>>

\* AuthHandler.abort() called by a caller (a timeout it imposes).
Abort ==
    /\ ~transport.server_mode
    /\ events' = abort(World).ev
    /\ UNCHANGED <<handler, transport, caller, reader, obs>>

\* ----------------------------------------------------------- reader thread
CanDeliver ==
    /\ reader.pc = "idle"
    /\ transport.active

W0 == [World EXCEPT !.out = <<>>, !.calls = <<>>]

\* What the history keeps of the inbound message m and of the answer p of
\* the server policy.
Last(m, p) ==
    IF m.type = "USERAUTH_REQUEST"
    THEN [type |-> m.type, username |-> m.username, service |-> m.service,
          method |-> m.method, flag |-> m.flag, answer |-> p]
    ELSE [NoLast EXCEPT !.type = m.type, !.answer = p]

\* The history at the start of a handler.  A server's history keeps the last
\* inbound message and what its handler sent, called and raised.
Obs0(m, p) ==
    IF transport.server_mode
    THEN [obs EXCEPT !.last = Last(m, p), !.out = <<>>, !.calls = <<>>, !.exc = NoExc]
    ELSE obs

\* The number of non-partial USERAUTH_FAILURE messages in out.
NonPartialFailures(out) ==
    Cardinality({i \in 1..Len(out) :
                    out[i].type = "USERAUTH_FAILURE" /\ ~out[i].partial})

\* The number of USERAUTH_REQUEST messages in out.
UserauthRequests(out) ==
    Cardinality({i \in 1..Len(out) : out[i].type = "USERAUTH_REQUEST"})

\* The end of one step of the reader: w is the world the step leaves, rd the
\* reader's next position, o the history at the start of the step (what the
\* step sent is what w.out holds beyond o.out).  An exception the step raised ends
\* the run loop (TransportFail).
Finish(w, rd, o) ==
    LET wf == TransportFail(w)
    IN /\ wf.t.triggers <= MaxTriggers
       /\ handler' = wf.h
       /\ transport' = wf.t
       /\ events' = wf.ev
       /\ reader' = IF w.exc # NoExc THEN IdleReader ELSE rd
       /\ obs' = IF transport.server_mode
                 THEN [o EXCEPT !.out = wf.out, !.calls = wf.calls, !.exc = w.exc,
                                !.failures = @ + NonPartialFailures(
                                    SubSeq(wf.out, Len(o.out) + 1, Len(wf.out)))]
                 ELSE IF o.tally
                 THEN [o EXCEPT !.requests = @ + UserauthRequests(wf.out)]
                 ELSE o
       /\ UNCHANGED caller

\* The first step of a handler that goes on in steps: s is [w, r].
Begin(s, o) == Finish(s.w, s.r, o)

\* The reader goes on from one of the positions pcs.
Inside(pcs) ==
    /\ reader.pc \in pcs
    /\ LET s == InsideStep(World, reader) IN Finish(s.w, s.r, obs)

\* The peer closes the connection: the reader's run loop ends on EOFError.
TransportEOF ==
    /\ reader.pc = "idle" /\ transport.active
    /\ Finish(Raise(World, "EOFError"), IdleReader, obs)

RecvServiceRequest ==
    \E s \in {"ssh-userauth", "other"} :
        LET m == ServiceMsg("SERVICE_REQUEST", s)
        IN /\ CanDeliver
           /\ transport.server_mode \/ s = "ssh-userauth"
           /\ Finish(_parse_service_request(W0, m), IdleReader, Obs0(m, None))

RecvServiceAccept ==
    \E s \in {"ssh-userauth", "other"} :
        LET m == ServiceMsg("SERVICE_ACCEPT", s)
        IN /\ CanDeliver
           /\ obs.requests < MaxRequests
           /\ Begin(_parse_service_accept_190(W0, m), Obs0(m, None))

AcceptInside == Inside(AcceptPcs)

\* The signatures an inbound publickey request may carry: the right one, one
\* by another key, one over another username, one over another session id.
SigVariants(u, service, key) ==
    LET blob == _get_session_blob(key, service, u)
    IN {sign_ssh_data(key, blob)}
       \cup {sign_ssh_data(k, blob) : k \in Keys \ {key}}
       \cup {sign_ssh_data(key, [blob EXCEPT !.username = v]) : v \in Users \ {u}}
       \cup {sign_ssh_data(key, [blob EXCEPT !.session_id = sid]) :
                sid \in SessionIds \ {session_id}}

PublickeyRequests(u, service) ==
    {RequestMsg(u, service, "publickey", FALSE, k[1], k[2], 0, NoSig, 0) :
        k \in {<<"ssh-rsa", 1>>, <<"ssh-rsa", 0>>, <<"bogus-type", 1>>}}
    \cup {RequestMsg(u, service, "publickey", TRUE, "ssh-rsa", 1, 0, sg, 0) :
             sg \in SigVariants(u, service, 1)}
    \cup {RequestMsg(u, service, "publickey", TRUE, "ssh-rsa", 0, 0,
                     sign_ssh_data(1, _get_session_blob(1, service, u)), 0)}

\* The USERAUTH_REQUEST messages of user u for a service.
RequestsFor(u, service) ==
    {RequestMsg(u, service, meth, FALSE, "", 0, 0, NoSig, 0) :
        meth \in {"none", "keyboard-interactive", "bogus"}}
    \cup {RequestMsg(u, service, "password", f, "", 0, 1, NoSig, 0) : f \in BOOLEAN}
    \cup PublickeyRequests(u, service)

\* The USERAUTH_REQUEST messages a server is sent.
ServerRequests ==
    UNION {RequestsFor(u, "ssh-connection")
           \cup {RequestMsg(u, "other", "none", FALSE, "", 0, 0, NoSig, 0)} : u \in Users}

RequestsIn ==
    IF transport.server_mode THEN ServerRequests
    ELSE {RequestMsg("alice", "ssh-connection", "none", FALSE, "", 0, 0, NoSig, 0)}

\* What the server policy may answer to the callback message m leads to.
Answers(m) ==
    IF ~transport.server_mode THEN {"AUTH_FAILED"}
    ELSE IF m.type = "USERAUTH_INFO_RESPONSE" THEN AuthResults \cup {InteractiveQuery}
    ELSE IF m.service # "ssh-connection" THEN {"AUTH_FAILED"}
    ELSE IF m.method = "keyboard-interactive" THEN AuthResults \cup {InteractiveQuery}
    ELSE IF m.method = "password" /\ m.flag THEN {"AUTH_FAILED"}
    ELSE IF m.method = "publickey" /\ ParseKey(m.keytype, m.keyblob) = 0 THEN {"AUTH_FAILED"}
    ELSE AuthResults

RecvUserauthRequest ==
    \E m \in RequestsIn : \E p \in Answers(m) :
        CanDeliver /\ Finish(_parse_userauth_request(W0, m, p), IdleReader, Obs0(m, p))

RecvUserauthSuccess ==
    LET m == Msg("USERAUTH_SUCCESS")
    IN /\ CanDeliver
       /\ transport.triggers < MaxTriggers
       /\ Begin(_parse_userauth_success_358(W0), Obs0(m, None))

SuccessInside == Inside(SuccessPcs)

\* The USERAUTH_FAILURE messages the handler is sent.
FailuresIn ==
    IF transport.server_mode THEN {FailureMsg(<<"publickey">>, FALSE)}
    ELSE {FailureMsg(<<"publickey">>, partial) : partial \in BOOLEAN}

RecvUserauthFailure ==
    \E m \in FailuresIn :
        CanDeliver /\ Begin(_parse_userauth_failure_365(W0, m), Obs0(m, None))

FailureInside == Inside(FailurePcs)

RecvUserauthBanner ==
    LET m == Msg("USERAUTH_BANNER")
    IN CanDeliver /\ Finish(_parse_userauth_banner(W0, m), IdleReader, Obs0(m, None))

RecvUserauthInfoRequest ==
    LET m == Msg("USERAUTH_INFO_REQUEST")
    IN CanDeliver /\ Begin(_parse_userauth_info_request_389(W0, m), Obs0(m, None))

InfoRequestInside == Inside(InfoRequestPcs)

RecvUserauthInfoResponse ==
    LET m == Msg("USERAUTH_INFO_RESPONSE")
    IN \E p \in Answers(m) :
          CanDeliver /\ Finish(_parse_userauth_info_response(W0, m, p), IdleReader, Obs0(m, p))

\* ------------------------------------------------------------ specification
CallerStep(t) ==
    \/ \E meth \in ClientMethods : ArmBegin(t, meth)
    \/ ArmEvent(t)
    \/ ArmMethod(t)
    \/ ArmUsername(t)
    \/ ArmCredential(t)
    \/ ArmSubmethods(t)
    \/ ArmSend(t)
    \/ ArmRelease(t)
    \/ WaitLoop(t)
    \/ WaitIsSet(t)
    \/ WaitAuth(t)
    \/ WaitExc(t)

\* The reader starts the handler _handler_table gives for an inbound message
\* (auth_handler.py:422-431), or finds the connection closed.
Dispatch ==
    \/ RecvServiceRequest
    \/ RecvServiceAccept
    \/ RecvUserauthRequest
    \/ RecvUserauthSuccess
    \/ RecvUserauthFailure
    \/ RecvUserauthBanner
    \/ RecvUserauthInfoRequest
    \/ RecvUserauthInfoResponse
    \/ TransportEOF

\* The reader goes on inside the handler it is in.
ReaderInside ==
    \/ AcceptInside
    \/ SuccessInside
    \/ FailureInside
    \/ InfoRequestInside

ReaderStep == Dispatch \/ ReaderInside

Next ==
    \/ \E t \in Threads : CallerStep(t)
    \/ ReaderStep
    \/ Abort

Spec == Init /\ [][Next]_vars

\* A client: caller threads, the reader, abort().
ClientInit == Init /\ ~transport.server_mode
ClientSpec == ClientInit /\ [][Next]_vars

\* A server: the reader alone.  No caller arms an attempt: auth_method
\* stays b'', and the reader never gets into the second half of
\* _parse_userauth_info_request.
ServerNext ==
    \/ Dispatch
    \/ AcceptInside
    \/ SuccessInside
    \/ FailureInside

ServerInit == Init /\ transport.server_mode
ServerSpec == ServerInit /\ [][ServerNext]_vars

\* A client whose history tallies the USERAUTH_REQUEST messages it sends.
TallyInit == InitState(TRUE) /\ ~transport.server_mode
TallySpec == TallyInit /\ [][Next]_vars

\* The caller threads are scheduled fairly, and so is the reader inside a
\* handler; the peer is free to send nothing more.
FairClientSpec ==
    /\ ClientInit
    /\ [][Next]_vars
    /\ \A t \in Threads : WF_vars(CallerStep(t))
    /\ WF_vars(ReaderInside)

\* ------------------------------------------------------------------ claims
\* Attempt e is in flight: its auth_* call has returned, the handler holds its
\* event, the event is not set, the transport is active and the reader is
\* between two messages.
InFlight(e) ==
    /\ ~transport.server_mode
    /\ transport.active
    /\ reader.pc = "idle"
    /\ handler.auth_event = e
    /\ ~events[e]
    /\ \E t \in Threads : caller[t].event = e /\ caller[t].pc \in {"w_loop", "w_isset"}

\* C1 (refuted by the code): in a sequence of valid inbound messages the
\* event of the attempt is set by the terminal message and by no other step.
\* Here: the step that handles a USERAUTH_BANNER while an attempt is in
\* flight leaves the event unset and the reader running, so that the terminal
\* message that follows is the one that sets the event.
C1_BannerLeavesEventToTerminal ==
    [][\A e \in Attempts :
          (InFlight(e) /\ RecvUserauthBanner)
             => (events' = events /\ transport'.active)]_vars

\* C2 (refuted by the code): under fair scheduling, a caller blocked in
\* wait_for_response while the reader handles a USERAUTH_SUCCESS or a
\* USERAUTH_FAILURE, or while the transport is inactive, eventually returns
\* or raises.
C2_NoCallerHangs ==
    \A t \in Threads :
        (/\ caller[t].pc \in {"w_loop", "w_isset"}
         /\ reader.pc \in {"success_361", "failure_379"} \/ ~transport.active)
            ~> (caller[t].pc = "done")

\* C3 (as stated, refuted): once `authenticated` is true no step sets it back
\* to false.
C3_AuthenticatedMonotonic ==
    [][handler.authenticated => handler'.authenticated]_vars

\* C3 (amended): `authenticated` goes from true to false only in the step of
\* _parse_userauth_failure (line 377) that handles an inbound
\* USERAUTH_FAILURE; no other operation and no other inbound message resets
\* it, on the client and on the server.
C3_ResetOnlyByUserauthFailure ==
    [][(handler.authenticated /\ ~handler'.authenticated)
          => (reader.pc = "failure_377" /\ reader'.pc = "failure_378")]_vars

\* A caller has been told of a success, and the reader, handling a later
\* USERAUTH_FAILURE, has reset `authenticated`.
C3_Witness ==
    /\ ~handler.authenticated
    /\ reader.pc = "failure_378"
    /\ \E t \in Threads :
          caller[t].pc = "done" /\ caller[t].result = WaitSuccessOutcome

\* C4 (refuted by the code): over the lifetime of one handler auth_trigger is
\* called at most once, whatever the inbound messages.
C4_AuthTriggerAtMostOnce == transport.triggers <= 1

\* C5 (refuted by the code): no attempt is armed while an earlier attempt has
\* not reached a terminal outcome: every event an auth_* call has stored in the
\* handler and a later call has replaced was set before it was replaced.
C5_NoUnsetEventReplaced ==
    \A e \in Attempts :
        (e <= obs.nArmed /\ e # handler.auth_event) => events[e]

\* C10: with the transport active, wait_for_response on the event of an
\* attempt in flight returns the empty list once USERAUTH_SUCCESS has been
\* handled, returns exactly `list` once USERAUTH_FAILURE(list, partial=true)
\* has been handled, and raises BadAuthenticationType carrying `list` once
\* USERAUTH_FAILURE(list, partial=false) has been handled with the attempted
\* method not in `list`; this for every state an attempt can be in flight in,
\* whatever earlier attempts left behind.
C10_ResultMapping ==
    \A e \in Attempts :
        InFlight(e) =>
            /\ wait_for_response(_parse_userauth_success(W0), e) = WaitSuccessOutcome
            /\ \A l \in AuthLists :
                  /\ wait_for_response(_parse_userauth_failure(W0, FailureMsg(l, TRUE)), e)
                        = [kind |-> "return", allowed |-> l, exc |-> None]
                  /\ ~InList(handler.auth_method, l) =>
                        wait_for_response(_parse_userauth_failure(W0, FailureMsg(l, FALSE)), e)
                           = [kind |-> "raise", allowed |-> l,
                              exc |-> "BadAuthenticationType"]

\* A caller's wait_for_response has raised BadAuthenticationType carrying the
\* list of the USERAUTH_FAILURE that ended its attempt, and another caller's
\* has returned the list of a partial USERAUTH_FAILURE.
C10_Witness ==
    /\ transport.active
    /\ \E t \in Threads :
          /\ caller[t].pc = "done"
          /\ caller[t].result = [kind |-> "raise", allowed |-> <<"publickey">>,
                                 exc |-> "BadAuthenticationType"]
    /\ \E t \in Threads :
          /\ caller[t].pc = "done"
          /\ caller[t].result = [kind |-> "return", allowed |-> <<"publickey">>,
                                 exc |-> None]

\* ---- server claims: the handlers applied to every state a server reaches
\* The USERAUTH_REQUEST messages and the policy answers the server claims
\* range over.
AllRequests == UNION {RequestsFor(u, s) : u \in Users, s \in {"ssh-connection", "other"}}
AllAnswers == AuthResults \cup {InteractiveQuery}

\* The server is between two messages.
ServerIdle == transport.server_mode /\ CanDeliver

\* What the handlers of _handler_table leave when run, each from end to end,
\* in the current state.
HandlerOutcomes ==
    {_parse_userauth_request(W0, m, p) : m \in AllRequests, p \in AllAnswers}
    \cup {_parse_userauth_info_response(W0, Msg("USERAUTH_INFO_RESPONSE"), p) :
             p \in AllAnswers}
    \cup {_parse_service_request(W0, ServiceMsg("SERVICE_REQUEST", s)) : s \in Services}
    \cup {_parse_service_accept(W0, ServiceMsg("SERVICE_ACCEPT", s)) : s \in Services}
    \cup {_parse_userauth_failure(W0, FailureMsg(l, b)) : l \in AuthLists, b \in BOOLEAN}
    \cup {_parse_userauth_success(W0),
          _parse_userauth_banner(W0, Msg("USERAUTH_BANNER")),
          _parse_userauth_info_request(W0, Msg("USERAUTH_INFO_REQUEST"))}

Sent(w, type) == \E i \in 1..Len(w.out) : w.out[i].type = type

\* C6 (as stated, refuted): in any server state, a USERAUTH_REQUEST whose
\* username differs from the bound one makes the server send
\* DISCONNECT(NO_MORE_AUTH_METHODS_AVAILABLE) and close the transport.
C6_DisconnectInAnyState ==
    \A m \in AllRequests : \A p \in AllAnswers :
        (ServerIdle /\ handler.auth_username \notin {None, m.username}) =>
            LET w == _parse_userauth_request(W0, m, p)
            IN /\ w.out = <<DisconnectMsg("NO_MORE_AUTH_METHODS_AVAILABLE")>>
               /\ ~w.t.active

\* C6 (amended): once bound, `auth_username` is changed by no handler; a
\* USERAUTH_REQUEST whose username differs from the bound one calls no policy
\* callback, sends no USERAUTH_SUCCESS and changes no handler field; it makes
\* the server send DISCONNECT(NO_MORE_AUTH_METHODS_AVAILABLE) and close the
\* transport when the server is not yet authenticated and the request names
\* the service ssh-connection; an authenticated server ignores it, and one
\* naming another service gets DISCONNECT(SERVICE_NOT_AVAILABLE).
C6_UsernameBinding ==
    (ServerIdle /\ handler.auth_username # None) =>
        /\ \A w \in HandlerOutcomes : w.h.auth_username = handler.auth_username
        /\ \A m \in AllRequests : \A p \in AllAnswers :
              m.username # handler.auth_username =>
                  LET w == _parse_userauth_request(W0, m, p)
                  IN /\ w.calls = <<>>
                     /\ ~Sent(w, "USERAUTH_SUCCESS")
                     /\ w.h = handler
                     /\ w.t.triggers = transport.triggers
                     /\ IF handler.authenticated
                        THEN w.out = <<>> /\ w.t.active
                        ELSE IF m.service # "ssh-connection"
                        THEN /\ w.out = <<DisconnectMsg("SERVICE_NOT_AVAILABLE")>>
                             /\ ~w.t.active
                        ELSE /\ w.out = <<DisconnectMsg("NO_MORE_AUTH_METHODS_AVAILABLE")>>
                             /\ ~w.t.active

\* The server has handled a USERAUTH_REQUEST naming another user than the
\* bound one: it sent the disconnect and closed.
C6_Witness ==
    /\ transport.server_mode
    /\ obs.last.type = "USERAUTH_REQUEST"
    /\ handler.auth_username \notin {None, obs.last.username}
    /\ obs.out = <<DisconnectMsg("NO_MORE_AUTH_METHODS_AVAILABLE")>>
    /\ obs.calls = <<>>
    /\ ~transport.active

\* C7: the server sends DISCONNECT(NO_MORE_AUTH_METHODS_AVAILABLE) right
\* after its 10th non-partial USERAUTH_FAILURE and closes; after fewer it
\* sends no disconnect behind a USERAUTH_FAILURE; `auth_fail_count` is the
\* number of non-partial failures sent (partial ones are not counted) and
\* stays below 10 while the transport is open.
C7_FailureCap ==
    transport.server_mode =>
        /\ handler.auth_fail_count = obs.failures
        /\ obs.failures <= FailCap
        /\ transport.active => obs.failures < FailCap
        /\ obs.failures = FailCap =>
              /\ Len(obs.out) = 2
              /\ obs.out[1].type = "USERAUTH_FAILURE" /\ ~obs.out[1].partial
              /\ obs.out[2] = DisconnectMsg("NO_MORE_AUTH_METHODS_AVAILABLE")
        /\ obs.failures < FailCap =>
              ~(/\ Len(obs.out) >= 2
                /\ obs.out[Len(obs.out)].type = "DISCONNECT")

\* The server has sent its 10th non-partial failure and the cap disconnect.
C7_Witness ==
    /\ transport.server_mode
    /\ obs.failures = FailCap
    /\ obs.last.answer = "AUTH_FAILED"

\* The publickey USERAUTH_REQUEST messages, and those the server takes up:
\* it is not yet authenticated, the service is ssh-connection, the username
\* is not a change of the bound one and the key blob parses.
PublickeyIn == {m \in AllRequests : m.method = "publickey"}
TakenUp(m) ==
    /\ ~handler.authenticated
    /\ m.service = "ssh-connection"
    /\ handler.auth_username \in {None, m.username}
    /\ ParseKey(m.keytype, m.keyblob) # 0

\* The request granted authentication: USERAUTH_SUCCESS sent, `authenticated`
\* set or auth_trigger called.
Granted(w) ==
    \/ Sent(w, "USERAUTH_SUCCESS")
    \/ w.h.authenticated /\ ~handler.authenticated
    \/ w.t.triggers # transport.triggers

\* C8 (as stated, refuted): to every publickey request without a signature
\* the server answers with exactly one USERAUTH_PK_OK when the policy's result
\* is not Failed and with exactly one USERAUTH_FAILURE otherwise, never
\* granting authentication.
C8_ProbeAnsweredAlways ==
    \A m \in PublickeyIn : \A p \in AllAnswers :
        (ServerIdle /\ ~m.flag) =>
            LET w == _parse_userauth_request(W0, m, p)
            IN /\ ~Granted(w)
               /\ Len(w.out) = 1
               /\ IF p # "AUTH_FAILED"
                  THEN w.out[1] = PkOkMsg(m.keytype, m.keyblob)
                  ELSE w.out[1].type = "USERAUTH_FAILURE"

\* C8 (amended): a publickey request without a signature never makes the
\* server send USERAUTH_SUCCESS, set `authenticated` or call auth_trigger.
\* When the server takes the request up, it sends exactly one
\* USERAUTH_PK_OK(alg_name, pubkey_blob) if check_auth_publickey's result is
\* not Failed, and otherwise one non-partial USERAUTH_FAILURE, followed by
\* DISCONNECT(NO_MORE_AUTH_METHODS_AVAILABLE) when it is the 10th.  When it
\* does not take it up it sends neither: nothing if already authenticated,
\* else one DISCONNECT, and the policy is not asked.
C8_SignatureGating ==
    \A m \in PublickeyIn : \A p \in AllAnswers :
        (ServerIdle /\ ~m.flag) =>
            LET w == _parse_userauth_request(W0, m, p)
                failure == FailureMsg(get_allowed_auths(m.username), FALSE)
            IN /\ ~Granted(w)
               /\ w.h.authenticated = handler.authenticated
               /\ IF ~TakenUp(m)
                  THEN /\ w.calls = <<>>
                       /\ IF handler.authenticated
                          THEN w.out = <<>>
                          ELSE Len(w.out) = 1 /\ w.out[1].type = "DISCONNECT"
                  ELSE IF p # "AUTH_FAILED"
                  THEN /\ w.out = <<PkOkMsg(m.keytype, m.keyblob)>>
                       /\ w.calls = <<"check_auth_publickey">>
                       /\ w.h.auth_fail_count = handler.auth_fail_count
                  ELSE /\ w.h.auth_fail_count = handler.auth_fail_count + 1
                       /\ IF w.h.auth_fail_count < FailCap
                          THEN w.out = <<failure>>
                          ELSE w.out = <<failure,
                                  DisconnectMsg("NO_MORE_AUTH_METHODS_AVAILABLE")>>

\* The server has answered a publickey request without a signature, which
\* the policy did not fail, with USERAUTH_PK_OK and nothing else.
C8_Witness ==
    /\ transport.server_mode
    /\ obs.last.type = "USERAUTH_REQUEST" /\ obs.last.method = "publickey"
    /\ ~obs.last.flag
    /\ obs.last.answer = "AUTH_SUCCESSFUL"
    /\ obs.out = <<PkOkMsg("ssh-rsa", 1)>>
    /\ ~handler.authenticated /\ transport.triggers = 0

\* C9: a publickey USERAUTH_REQUEST makes the server send USERAUTH_SUCCESS,
\* set `authenticated` or call auth_trigger only if the key parsed,
\* check_auth_publickey returned Successful, a signature was attached and it
\* verifies over the blob (session_id, username, service, "publickey", key)
\* of this request; a request taken up whose signature fails verification
\* is answered with a non-partial USERAUTH_FAILURE and counted as a failure.
C9_NoGrantWithoutVerifiedSignature ==
    \A m \in PublickeyIn : \A p \in AllAnswers :
        ServerIdle =>
            LET w == _parse_userauth_request(W0, m, p)
                key == ParseKey(m.keytype, m.keyblob)
                blob == [session_id |-> session_id, username |-> m.username,
                         service |-> m.service, method |-> "publickey", key |-> key]
                verified == m.sig.signer = key /\ m.sig.blob = blob
            IN /\ Granted(w) =>
                    /\ key # 0
                    /\ p = "AUTH_SUCCESSFUL"
                    /\ m.flag
                    /\ verified
                    /\ w.calls = <<"check_auth_publickey">>
               /\ (TakenUp(m) /\ m.flag /\ p # "AUTH_FAILED" /\ ~verified) =>
                    /\ ~w.h.authenticated
                    /\ w.out[1] = FailureMsg(get_allowed_auths(m.username), FALSE)
                    /\ w.h.auth_fail_count = handler.auth_fail_count + 1

\* The server has granted a publickey request with a signature attached.
C9_Witness ==
    /\ transport.server_mode
    /\ obs.last.type = "USERAUTH_REQUEST" /\ obs.last.method = "publickey"
    /\ obs.last.flag
    /\ obs.out = <<Msg("USERAUTH_SUCCESS")>>
    /\ handler.authenticated /\ transport.triggers = 1

\* ---- second group of claims
\* C11 (refuted by the code): whatever earlier attempts left behind, a
\* USERAUTH_FAILURE(list, partial=false) whose list holds the attempted
\* method leaves no saved error for the attempt in flight, and its caller's
\* wait_for_response raises the generic AuthenticationException.
C11_GenericRejection ==
    \A e \in Attempts : \A l \in AuthLists :
        (InFlight(e) /\ InList(handler.auth_method, l)) =>
            LET w == _parse_userauth_failure(W0, FailureMsg(l, FALSE))
            IN /\ get_exception(w) = NoExc
               /\ wait_for_response(w, e)
                     = [kind |-> "raise", allowed |-> <<>>,
                        exc |-> "AuthenticationException"]

\* The server has answered a keyboard-interactive USERAUTH_REQUEST with a
\* USERAUTH_INFO_REQUEST and waits for the USERAUTH_INFO_RESPONSE.
InteractivePending ==
    /\ ServerIdle
    /\ obs.last.type = "USERAUTH_REQUEST"
    /\ obs.last.method = "keyboard-interactive"
    /\ obs.out = <<[type |-> "USERAUTH_INFO_REQUEST", query |-> InteractiveQuery]>>

\* C12 (refuted by the code): when check_auth_interactive_response answers a
\* USERAUTH_INFO_RESPONSE with an InteractiveQuery the server sends a further
\* USERAUTH_INFO_REQUEST, no USERAUTH_SUCCESS and no USERAUTH_FAILURE, and
\* leaves `auth_fail_count` as it was; with any other answer it sends the
\* auth result.
C12_InteractiveContinuation ==
    InteractivePending =>
        LET m == Msg("USERAUTH_INFO_RESPONSE")
            w == _parse_userauth_info_response(W0, m, InteractiveQuery)
        IN /\ w.out = <<[type |-> "USERAUTH_INFO_REQUEST", query |-> InteractiveQuery]>>
           /\ w.h.auth_fail_count = handler.auth_fail_count
           /\ \A p \in AuthResults :
                 LET v == _parse_userauth_info_response(W0, m, p)
                 IN Sent(v, IF p = "AUTH_SUCCESSFUL" THEN "USERAUTH_SUCCESS"
                            ELSE "USERAUTH_FAILURE")

\* C13: abort() sets the event the handler holds, sends nothing and changes
\* no field of the handler or of the transport; a second abort() changes
\* nothing more; with no event held (auth_event is None) abort() changes
\* nothing at all; a caller in the loop of wait_for_response on that event
\* stops waiting once abort() has run.
C13_AbortIdempotent ==
    ~transport.server_mode =>
        LET a == abort(W0)
        IN /\ a.out = <<>> /\ a.calls = <<>> /\ a.exc = NoExc
           /\ a.h = handler /\ a.t = transport
           /\ abort(a) = a
           /\ IF handler.auth_event = NoEvent
              THEN a = W0
              ELSE a.ev = [events EXCEPT ![handler.auth_event] = TRUE]
           /\ \A t \in Threads :
                 (caller[t].pc \in {"w_loop", "w_isset"}
                     /\ caller[t].event = handler.auth_event)
                    => wait_for_response(a, caller[t].event) # Blocked

\* abort() has ended the only attempt armed: no USERAUTH_SUCCESS and no
\* USERAUTH_FAILURE was handled (either would have left a trigger or a saved
\* exception behind), the transport is open, the event is set and the caller
\* has left wait_for_response with the generic failure.
C13_Witness ==
    /\ ~transport.server_mode /\ transport.active
    /\ obs.nArmed = 1 /\ handler.auth_event = 1 /\ handler.auth_method = "none"
    /\ transport.triggers = 0 /\ transport.saved_exception = NoExc
    /\ events[1]
    /\ \E t \in Threads :
          /\ caller[t].event = 1 /\ caller[t].pc = "done"
          /\ caller[t].result = [kind |-> "raise", allowed |-> <<>>,
                                 exc |-> "AuthenticationException"]

\* C14: an authenticated server ignores every further USERAUTH_REQUEST,
\* whatever its username, service and method: it sends nothing, calls no
\* policy callback, raises nothing, and leaves the handler (`auth_username`,
\* `auth_fail_count`, `authenticated` and the rest) and the transport as they
\* were.
C14_IgnoredWhenAuthenticated ==
    (ServerIdle /\ handler.authenticated) =>
        \A m \in AllRequests : \A p \in AllAnswers :
            LET w == _parse_userauth_request(W0, m, p)
            IN /\ w.out = <<>> /\ w.calls = <<>> /\ w.exc = NoExc
               /\ w.h = handler
               /\ w.t = transport
               /\ w.ev = events

\* An authenticated server has been sent a USERAUTH_REQUEST naming another
\* user than the bound one, and has sent and called nothing.
C14_Witness ==
    /\ transport.server_mode /\ transport.active
    /\ handler.authenticated
    /\ obs.last.type = "USERAUTH_REQUEST"
    /\ obs.last.username # handler.auth_username
    /\ obs.out = <<>> /\ obs.calls = <<>>

\* The handler call w ended in a protocol error fatal to the transport: it
\* raised SSHException, which the reader's run loop saves before it closes
\* the transport, and it sent nothing.
FatalProtocolError(w) ==
    /\ w.exc = Exc("SSHException")
    /\ w.out = <<>>
    /\ ~TransportFail(w).t.active
    /\ TransportFail(w).t.saved_exception = Exc("SSHException")

\* C15 (refuted by the code): a client that is sent USERAUTH_INFO_REQUEST
\* while its auth_method is not keyboard-interactive, or a USERAUTH_REQUEST,
\* or a USERAUTH_INFO_RESPONSE, fails with a protocol error fatal to the
\* transport and sends no reply.
C15_ProtocolViolationsFatal ==
    (~transport.server_mode /\ CanDeliver) =>
        /\ handler.auth_method # "keyboard-interactive" =>
              FatalProtocolError(
                  _parse_userauth_info_request(W0, Msg("USERAUTH_INFO_REQUEST")))
        /\ \A p \in AllAnswers :
              FatalProtocolError(
                  _parse_userauth_info_response(W0, Msg("USERAUTH_INFO_RESPONSE"), p))
        /\ \A m \in AllRequests : \A p \in AllAnswers :
              FatalProtocolError(_parse_userauth_request(W0, m, p))

\* C16 (refuted by the code): whenever the reader is about to set the event
\* because of a USERAUTH_SUCCESS or a USERAUTH_FAILURE (lines 361-362,
\* 379-380), the fields the caller reads once it finds the event set already
\* hold that message's outcome: `authenticated` is true for USERAUTH_SUCCESS
\* and false for USERAUTH_FAILURE, and the saved exception is
\* PartialAuthentication(list) for a partial failure and, for a non-partial
\* one, BadAuthenticationType(list) or none; no value from before the
\* message is left for the caller to read.
C16_WrittenBeforeEventSet ==
    /\ reader.pc = "success_361" => handler.authenticated
    /\ reader.pc = "failure_379" =>
          /\ ~handler.authenticated
          /\ transport.saved_exception \in
                IF reader.m.partial
                THEN {PartialAuthentication(reader.m.authlist)}
                ELSE {NoExc, BadAuthenticationType(reader.m.authlist)}

\* The number of SERVICE_REQUEST messages the client has sent: one for every
\* auth_* call that has stored its event, but for the one that has not yet
\* got as far as _request_auth.
ServiceRequestsSent ==
    obs.nArmed - (IF \E t \in Threads :
                        caller[t].pc \in {"arm_method", "arm_username", "arm_credential",
                                          "arm_submethods", "arm_send"}
                  THEN 1 ELSE 0)

\* C17 (refuted by the code): the client sends a USERAUTH_REQUEST only after
\* it has itself sent a SERVICE_REQUEST for an armed attempt: whenever the
\* reader, in _parse_service_accept, is about to send the request (line 221),
\* some auth_* call has got as far as _request_auth.
C17_RequestOnlyAfterAccept ==
    (~transport.server_mode /\ reader.pc = "accept_221") => ServiceRequestsSent >= 1

\* The USERAUTH_REQUEST r carries the username and the credential of
\* attempt a (auth_* call number a passes username UserOf(a) and credential a).
OfAttempt(r, a) ==
    /\ r.username = UserOf(a)
    /\ r.method = "password" => r.password = a
    /\ r.method = "publickey" =>
          /\ r.keyblob = a
          /\ r.sig = sign_ssh_data(a, _get_session_blob(a, "ssh-connection", UserOf(a)))
    /\ r.method = "keyboard-interactive" => r.submethods = a

\* C18 (refuted by the code): the username and the credentials of every
\* USERAUTH_REQUEST the client sends are those of one and the same armed
\* attempt, however the caller threads and the reader interleave.
C18_RequestOfOneAttempt ==
    (~transport.server_mode /\ reader.pc = "accept_221") =>
        \E a \in 1..obs.nArmed : OfAttempt(reader.m, a)

\* C19 (refuted by the code): the client has sent no more USERAUTH_REQUEST
\* messages than auth_* calls were made.
C19_OneRequestPerAttempt ==
    (~transport.server_mode /\ obs.tally) => obs.requests <= obs.nArmed

\* C20 (refuted by the code): an attempt in flight, for which no
\* USERAUTH_SUCCESS has been handled since it was armed (its event is not
\* set), does not report success when abort() ends it: wait_for_response on
\* its event does not return the empty list.
C20_NoSuccessByAbort ==
    \A e \in Attempts :
        InFlight(e) => wait_for_response(abort(W0), e) # WaitSuccessOutcome

====
